---- MODULE Spec2Model ----
(***************************************************************************)
(* Model of src-tauri/src/lib.rs of GurobiLab-Desktop: the process         *)
(* supervisor (run_optimization, kill_process), the display sanitizer      *)
(* (clean_gurobi_log), the log compression (prune_json_recursively,        *)
(* compress_log_for_ai) and the prompt assembly (build_prompt_string).     *)
(*                                                                         *)
(* Text.  A Rust String is a sequence of elements [c |-> ch, n |-> k]: k   *)
(* consecutive copies of the character ch.  Only filler letters are ever   *)
(* run-compressed (k > 1); every character the code inspects (space,       *)
(* newline, digits, the marker and banner characters) has k = 1.           *)
(* Characters are one-character strings; a character outside ASCII is      *)
(* named by its code point ("U+3042") and has the width of its UTF-8       *)
(* encoding.  The fixed Japanese literals of the source are single tokens  *)
(* with the byte length of the literal.                                    *)
(***************************************************************************)
EXTENDS Integers, Sequences, FiniteSets, TLC

VARIABLES
    \* ---- prune_json_recursively
    v,                  \* the serde_json Value handed to prune_json_recursively
    pruned,             \* the Value after the call
    jpc,                \* "start" | "done"
    \* ---- compress_log_for_ai / build_prompt_string
    log,                \* the raw captured text
    focus_point,
    system_instruction,
    compressed,         \* result of compress_log_for_ai(log)
    built,              \* result of build_prompt_string(log, focus_point, system_instruction)
    tpc,                \* "start" | "compressed" | "built"
    \* ---- run_optimization / kill_process
    command_prefix,     \* arguments of run_optimization
    script_path,
    args_str,
    mpc,                \* where run_optimization is
    cmd,                \* the Command built: program and cmd_args
    cstate,             \* the child: "none" | "running" | "exited"
    cpid,               \* child.id()
    script,             \* what the child has still to write
    exit_code,          \* the code the child exits with when it is done
    status,             \* the ExitStatus, once the child has exited
    pipe,               \* per stream, the lines in the pipe's buffer
    rpc,                \* per stream, where the reader thread is
    cur,                \* per stream, the line l the reader holds
    acc,                \* per stream, the accumulator (full_log, full_err)
    full_stdout,        \* the joined accumulators
    full_stderr,
    sink,               \* the events emitted on the window, in order
    result,             \* what run_optimization returned
    kill_ret,           \* what the last kill_process returned
    killed,             \* history: the OS terminated the child on a kill_process,
                        \* and whether run_optimization was waiting then
    errAt               \* history: per stream, what had been forwarded and
                        \* accumulated when a read first returned an error

jsonVars == <<v, pruned, jpc>>
textVars == <<log, focus_point, system_instruction, compressed, built, tpc>>
runVars ==
    <<command_prefix, script_path, args_str, mpc, cmd, cstate, cpid, script, exit_code,
      status, pipe, rpc, cur, acc, full_stdout, full_stderr, sink, result, kill_ret, killed, errAt>>
vars == <<jsonVars, textVars, runVars>>

(***************************************************************************)
(* Bounds of the model                                                     *)
(***************************************************************************)
MaxArrayLen == 5        \* longest array of a generated JSON document
JsonDepth == 2          \* nesting depth of a generated JSON document
MaxNumericLines == 50   \* most numeric lines of a generated log body
Slack == 3              \* generated long logs are within Slack bytes of the budget
MaxWrites == 2          \* most lines the child writes
PipeCap == 1            \* lines a pipe buffers before the writer blocks

(***************************************************************************)
(* The variables of run_optimization when no run is modelled               *)
(***************************************************************************)
Streams == {"stdout", "stderr"}

RunIdle ==
    /\ command_prefix = <<>>
    /\ script_path = <<>>
    /\ args_str = <<>>
    /\ mpc = "idle"
    /\ cmd = <<>>
    /\ cstate = "none"
    /\ cpid = 0
    /\ script = <<>>
    /\ exit_code = 0
    /\ status = <<>>
    /\ pipe = [s \in Streams |-> <<>>]
    /\ rpc = [s \in Streams |-> "unstarted"]
    /\ cur = [s \in Streams |-> <<>>]
    /\ acc = [s \in Streams |-> <<>>]
    /\ full_stdout = <<>>
    /\ full_stderr = <<>>
    /\ sink = <<>>
    /\ result = <<>>
    /\ kill_ret = "none"
    /\ killed = <<>>
    /\ errAt = [s \in Streams |-> <<>>]

(***************************************************************************)
(* Text primitives                                                         *)
(***************************************************************************)
Ch(c) == [c |-> c, n |-> 1]
Run(c, k) == [c |-> c, n |-> k]
Str(s) == [i \in 1..Len(s) |-> Ch(s[i])]

DigitChars == <<"0", "1", "2", "3", "4", "5", "6", "7", "8", "9">>

\* char::is_ascii_digit
is_ascii_digit(c) == \E i \in 1..10 : DigitChars[i] = c

\* char::is_whitespace (the White_Space characters the inputs use)
is_whitespace(c) == c \in {" ", "\t", "\n", "\r"}

\* Display of an unsigned integer ({} of usize / u32)
RECURSIVE FmtNat(_)
FmtNat(k) ==
    IF k < 10 THEN <<Ch(DigitChars[k + 1])>>
    ELSE Append(FmtNat(k \div 10), Ch(DigitChars[(k % 10) + 1]))

\* Display of an i32
FmtInt(k) == IF k < 0 THEN <<Ch("-")>> \o FmtNat(0 - k) ELSE FmtNat(k)

\* str::find: the first index at which pat occurs in s, 0 when none
IndexOf(s, pat) ==
    LET hits == {i \in 1..(Len(s) - Len(pat) + 1) : SubSeq(s, i, i + Len(pat) - 1) = pat}
    IN IF hits = {} THEN 0 ELSE CHOOSE i \in hits : \A j \in hits : i <= j

\* str::contains
Contains(s, pat) == IndexOf(s, pat) # 0

\* str::split(pat): the pieces between the occurrences of pat
RECURSIVE Split(_, _)
Split(s, pat) ==
    LET i == IndexOf(s, pat)
    IN IF i = 0 THEN <<s>>
       ELSE <<SubSeq(s, 1, i - 1)>> \o Split(SubSeq(s, i + Len(pat), Len(s)), pat)

\* slice::join(sep), by halves
RECURSIVE Join(_, _)
Join(ls, sep) ==
    IF ls = <<>> THEN <<>>
    ELSE IF Len(ls) = 1 THEN ls[1]
    ELSE LET h == Len(ls) \div 2
         IN Join(SubSeq(ls, 1, h), sep) \o sep \o Join(SubSeq(ls, h + 1, Len(ls)), sep)

NL == <<Ch("\n")>>

\* str::lines: split at "\n", a final empty piece dropped, one trailing "\r"
\* stripped from each line
StripCR(l) ==
    IF l # <<>> /\ l[Len(l)] = Ch("\r") THEN SubSeq(l, 1, Len(l) - 1) ELSE l

\* the pieces of s between the occurrences of the one-character separator
SplitChar(s, sep) ==
    LET pos == SelectSeq([i \in 1..Len(s) |-> i], LAMBDA i : s[i] = sep)
    IN [r \in 1..(Len(pos) + 1) |->
           SubSeq(s,
                  IF r = 1 THEN 1 ELSE pos[r - 1] + 1,
                  IF r = Len(pos) + 1 THEN Len(s) ELSE pos[r] - 1)]

Lines(s) ==
    LET ps == SplitChar(s, Ch("\n"))
        qs == IF ps[Len(ps)] = <<>> THEN SubSeq(ps, 1, Len(ps) - 1) ELSE ps
    IN [i \in 1..Len(qs) |-> StripCR(qs[i])]

\* str::trim
RECURSIVE TrimStart(_)
TrimStart(s) ==
    IF s # <<>> /\ is_whitespace(s[1].c) THEN TrimStart(Tail(s)) ELSE s

RECURSIVE TrimEnd(_)
TrimEnd(s) ==
    IF s # <<>> /\ is_whitespace(s[Len(s)].c) THEN TrimEnd(SubSeq(s, 1, Len(s) - 1)) ELSE s

Trim(s) == TrimEnd(TrimStart(s))

(***************************************************************************)
(* serde_json::Value                                                       *)
(***************************************************************************)
JNull == [t |-> "null"]
JNum(k) == [t |-> "num", num |-> k]
JStr(s) == [t |-> "str", str |-> s]
JArr(items) == [t |-> "arr", items |-> items]
JObj(map) == [t |-> "obj", map |-> map]

\* const MAX_ITEMS: usize = 3
MAX_ITEMS == 3

\* format!("... (truncated {} items) ...", k)
TruncationMarker(k) ==
    Str(<<".", ".", ".", " ", "(", "t", "r", "u", "n", "c", "a", "t", "e", "d", " ">>)
        \o FmtNat(k)
        \o Str(<<" ", "i", "t", "e", "m", "s", ")", " ", ".", ".", ".">>)

\* arr.truncate(MAX_ITEMS)
Truncate(items) == SubSeq(items, 1, MAX_ITEMS)

\* the capped array: truncated to MAX_ITEMS, the marker pushed
MarkerCountOff(original_len) == original_len

MarkerCount(original_len) == original_len - MAX_ITEMS

CapArray(items) ==
    IF Len(items) > MAX_ITEMS
    THEN Append(Truncate(items), JStr(TruncationMarker(MarkerCount(Len(items)))))
    ELSE items

RECURSIVE prune_json_recursively(_)
prune_json_recursively(val) ==
    IF val.t = "arr"
    THEN LET arr == CapArray(val.items)
         IN JArr([i \in 1..Len(arr) |-> prune_json_recursively(arr[i])])
    ELSE IF val.t = "obj"
    THEN JObj([k \in DOMAIN val.map |-> prune_json_recursively(val.map[k])])
    ELSE val

(***************************************************************************)
(* The JSON documents the model feeds to prune_json_recursively            *)
(***************************************************************************)
Scalars == {JNull, JNum(7), JStr(Str(<<"s">>))}

\* an array of k elements, the numbers 1..k except x at position pos
ArrOf(k, pos, x) == JArr([i \in 1..k |-> IF i = pos THEN x ELSE JNum(i)])

OneLevel(S) ==
    S \cup {JArr(<<>>), JObj(<<>>)}
      \cup {ArrOf(k, pos, x) : k \in 1..MaxArrayLen, pos \in 1..MaxArrayLen, x \in S}
      \cup {JObj("a" :> x) : x \in S}
      \cup {JObj(("a" :> x) @@ ("b" :> JNum(0))) : x \in S}

RECURSIVE JsonVals(_)
JsonVals(d) == IF d = 0 THEN Scalars ELSE OneLevel(JsonVals(d - 1))

(***************************************************************************)
(* Paths into a Value: a step is an array index or an object key           *)
(***************************************************************************)
AtIndex(i) == [i |-> i, k |-> ""]
AtKey(k) == [i |-> 0, k |-> k]

RECURSIVE Paths(_)
Paths(val) ==
    {<<>>} \cup
    (IF val.t = "arr"
     THEN UNION {{<<AtIndex(i)>> \o p : p \in Paths(val.items[i])} : i \in 1..Len(val.items)}
     ELSE IF val.t = "obj"
     THEN UNION {{<<AtKey(k)>> \o p : p \in Paths(val.map[k])} : k \in DOMAIN val.map}
     ELSE {})

RECURSIVE At(_, _)
At(val, p) ==
    IF p = <<>> THEN val
    ELSE IF val.t = "arr" THEN At(val.items[p[1].i], Tail(p))
    ELSE At(val.map[p[1].k], Tail(p))

\* p leads through no element that an enclosing array's truncation removes
Survives(val, p) ==
    \A j \in 1..Len(p) :
        LET parent == At(val, SubSeq(p, 1, j - 1))
        IN (parent.t = "arr" /\ Len(parent.items) > MAX_ITEMS) => p[j].i <= MAX_ITEMS

(***************************************************************************)
(* serde_json: to_string and from_str                                      *)
(***************************************************************************)
\* the escapes of a JSON string literal
EscapeJson(s) ==
    LET esc(e) ==
            IF e.c = "\"" THEN Str(<<"\\", "\"">>)
            ELSE IF e.c = "\\" THEN Str(<<"\\", "\\">>)
            ELSE IF e.c = "\n" THEN Str(<<"\\", "n">>)
            ELSE IF e.c = "\r" THEN Str(<<"\\", "r">>)
            ELSE IF e.c = "\t" THEN Str(<<"\\", "t">>)
            ELSE <<e>>
    IN Join([i \in 1..Len(s) |-> esc(s[i])], <<>>)

Quoted(s) == <<Ch("\"")>> \o EscapeJson(s) \o <<Ch("\"")>>

\* the keys the documents use, in the order of serde_json's BTreeMap
KeyOrder == <<"a", "b">>

SortedKeys(map) ==
    LET idx == {i \in 1..Len(KeyOrder) : KeyOrder[i] \in DOMAIN map}
        rank(i) == Cardinality({j \in idx : j <= i})
    IN [r \in 1..Cardinality(idx) |-> KeyOrder[CHOOSE i \in idx : rank(i) = r]]

\* Value::to_string: the compact serialization
RECURSIVE Serialize(_)
Serialize(val) ==
    IF val.t = "null" THEN Str(<<"n", "u", "l", "l">>)
    ELSE IF val.t = "num" THEN FmtInt(val.num)
    ELSE IF val.t = "str" THEN Quoted(val.str)
    ELSE IF val.t = "arr"
    THEN <<Ch("[")>>
         \o Join([i \in 1..Len(val.items) |-> Serialize(val.items[i])], <<Ch(",")>>)
         \o <<Ch("]")>>
    ELSE LET ks == SortedKeys(val.map)
         IN <<Ch("{")>>
            \o Join([i \in 1..Len(ks) |->
                        Quoted(Str(<<ks[i]>>)) \o <<Ch(":")>> \o Serialize(val.map[ks[i]])],
                    <<Ch(",")>>)
            \o <<Ch("}")>>

\* the documents from_str can return in the model, with their text
ParseUniverse == JsonVals(1)

ParseTable == [val \in ParseUniverse |-> Serialize(val)]

\* serde_json::from_str::<Value>: surrounding whitespace is skipped; Ok with
\* the document whose text this is, Err for any other text
from_str(raw) ==
    LET t == Trim(raw)
        hits == {val \in ParseUniverse : ParseTable[val] = t}
    IN IF hits = {} THEN [ok |-> FALSE, val |-> JNull]
       ELSE [ok |-> TRUE, val |-> CHOOSE val \in hits : TRUE]

(***************************************************************************)
(* compress_log_for_ai                                                     *)
(***************************************************************************)
JSON_START == Str(<<"-", "-", "-", "J", "S", "O", "N", "_", "S", "T", "A", "R", "T", "-", "-", "-">>)
JSON_END == Str(<<"-", "-", "-", "J", "S", "O", "N", "_", "E", "N", "D", "-", "-", "-">>)
JSON_TAG == Str(<<"\n", "[", "J", "S", "O", "N", "_", "D", "A", "T", "A", "]", ":">>)

\* the sampling window and stride of the numeric lines
SampleWindow == 15
SampleStride == 15

\* Regex " +" replaced by " ": every run of spaces becomes one space
CollapseSpaces(s) ==
    LET tagged == [i \in 1..Len(s) |->
                      [e |-> s[i], dup |-> s[i].c = " " /\ i > 1 /\ s[i - 1].c = " "]]
        kept == SelectSeq(tagged, LAMBDA x : ~x.dup)
    IN [i \in 1..Len(kept) |-> IF kept[i].e.c = " " THEN Ch(" ") ELSE kept[i].e]

\* numeric_row_count < 15 || numeric_row_count % 15 == 0
KeepNumericOff(numeric_row_count) ==
    numeric_row_count <= SampleWindow + 1 \/ numeric_row_count % SampleStride = 0

KeepNumeric(numeric_row_count) ==
    numeric_row_count < SampleWindow \/ numeric_row_count % SampleStride = 0

\* the filter closure on one line: the lines it lets through and the
\* counter numeric_row_count afterwards
FilterLine(line, numeric_row_count) ==
    LET trimmed == Trim(line)
    IN IF trimmed = <<>>
       THEN [kept |-> <<>>, count |-> numeric_row_count]
       ELSE IF is_ascii_digit(trimmed[1].c)
       THEN [kept |-> IF KeepNumeric(numeric_row_count + 1) THEN <<line>> ELSE <<>>,
             count |-> numeric_row_count + 1]
       ELSE [kept |-> <<line>>, count |-> numeric_row_count]

\* the closure applied to the lines in order (evaluated by halves, the
\* counter threaded from the first half into the second)
RECURSIVE SampleLines(_, _)
SampleLines(ls, numeric_row_count) ==
    IF ls = <<>> THEN [kept |-> <<>>, count |-> numeric_row_count]
    ELSE IF Len(ls) = 1 THEN FilterLine(ls[1], numeric_row_count)
    ELSE LET h == Len(ls) \div 2
             a == SampleLines(SubSeq(ls, 1, h), numeric_row_count)
             b == SampleLines(SubSeq(ls, h + 1, Len(ls)), a.count)
         IN [kept |-> a.kept \o b.kept, count |-> b.count]

\* parts[0], spaces collapsed
LogPart(full_log) == CollapseSpaces(Split(full_log, JSON_START)[1])

\* json_part: empty without a start marker, else the fragment up to the end
\* marker, pruned and re-serialized when it parses and verbatim when not
JsonPart(full_log) ==
    LET parts == Split(full_log, JSON_START)
    IN IF Len(parts) > 1
       THEN LET raw_json == Split(parts[2], JSON_END)[1]
                parsed == from_str(raw_json)
            IN IF parsed.ok
               THEN Serialize(prune_json_recursively(parsed.val))
               ELSE raw_json
       ELSE <<>>

compress_log_for_ai(full_log) ==
    LET json_part == JsonPart(full_log)
        log_part == Join(SampleLines(Lines(LogPart(full_log)), 0).kept, NL)
    IN IF json_part = <<>> THEN log_part ELSE log_part \o JSON_TAG \o json_part

(***************************************************************************)
(* build_prompt_string                                                     *)
(***************************************************************************)
\* the fixed literals of build_prompt_string, each one token
DEFAULT_INSTRUCTION == "<default system instruction>"
DEFAULT_FOCUS == "<default focus sentence>"
FOCUS_OPEN == "<additional directive, opening>"
FOCUS_CLOSE == "<additional directive, closing>"

\* bytes of the UTF-8 encoding of one character (or of one literal token)
Width(c) ==
    IF c = "U+00E9" THEN 2
    ELSE IF c = "U+3042" THEN 3
    ELSE IF c = "U+1F600" THEN 4
    ELSE IF c = DEFAULT_INSTRUCTION THEN 278
    ELSE IF c = DEFAULT_FOCUS THEN 90
    ELSE IF c = FOCUS_OPEN THEN 16
    ELSE IF c = FOCUS_CLOSE THEN 42
    ELSE 1

\* str::len: the length in bytes
RECURSIVE ByteLen(_)
ByteLen(s) ==
    IF s = <<>> THEN 0
    ELSE IF Len(s) = 1 THEN Width(s[1].c) * s[1].n
    ELSE LET h == Len(s) \div 2
         IN ByteLen(SubSeq(s, 1, h)) + ByteLen(SubSeq(s, h + 1, Len(s)))

\* byte offset at which element k of s starts
StartOf(s, k) == ByteLen(SubSeq(s, 1, k - 1))

\* str::is_char_boundary
is_char_boundary(s, off) ==
    \/ off = 0
    \/ off = ByteLen(s)
    \/ \E k \in 1..Len(s) :
           /\ StartOf(s, k) <= off
           /\ off < StartOf(s, k + 1)
           /\ (off - StartOf(s, k)) % Width(s[k].c) = 0

\* &s[off..] for an offset on a character boundary
SliceFrom(s, off) ==
    IF off >= ByteLen(s) THEN <<>>
    ELSE LET k == CHOOSE k \in 1..Len(s) : StartOf(s, k) <= off /\ off < StartOf(s, k + 1)
             skipped == (off - StartOf(s, k)) \div Width(s[k].c)
         IN <<Run(s[k].c, s[k].n - skipped)>> \o SubSeq(s, k + 1, Len(s))

\* the budget of the digest
MaxOutputChars == 15000

SNIP == Str(<<".", ".", ".", " ", "(", "s", "n", "i", "p", ")", " ", ".", ".", ".", "\n">>)
LOG_HEADER == Str(<<"\n", "[", "L", "O", "G", "]", "\n">>)

\* final_log: the digest after the length limit; slicing off a character
\* boundary panics
FinalLog(compressed_log) ==
    IF ByteLen(compressed_log) > MaxOutputChars
    THEN LET cut == ByteLen(compressed_log) - MaxOutputChars
         IN IF is_char_boundary(compressed_log, cut)
            THEN [panicked |-> FALSE, text |-> SNIP \o SliceFrom(compressed_log, cut)]
            ELSE [panicked |-> TRUE, text |-> <<>>]
    ELSE [panicked |-> FALSE, text |-> compressed_log]

build_prompt_string(full_log, focus, instruction) ==
    LET final_log == FinalLog(compress_log_for_ai(full_log))
        base_prompt == IF Trim(instruction) = <<>> THEN <<Ch(DEFAULT_INSTRUCTION)>>
                       ELSE instruction
        user_focus == <<Ch(DEFAULT_FOCUS)>>
                      \o (IF Trim(focus) # <<>>
                          THEN <<Ch(FOCUS_OPEN)>> \o focus \o <<Ch(FOCUS_CLOSE)>>
                          ELSE <<>>)
    IN IF final_log.panicked
       THEN [panicked |-> TRUE, final_log |-> <<>>, prompt |-> <<>>]
       ELSE [panicked |-> FALSE,
             final_log |-> final_log.text,
             prompt |-> base_prompt \o NL \o user_focus \o LOG_HEADER \o final_log.text]

(***************************************************************************)
(* The logs the model feeds to the compression                             *)
(***************************************************************************)
\* numeric line i: the number, two spaces, a letter; every third one indented
NumLine(i) ==
    (IF i % 3 = 0 THEN Str(<<" ", " ">>) ELSE <<>>) \o FmtNat(i) \o Str(<<" ", " ", "x">>)

\* lines that interleave the numeric ones, <<period, line>>: the line
\* follows every period-th numeric line; solver events, blanks, others
EventPatterns ==
    { <<1, Str(<<"H", " ", "1">>)>>, <<2, Str(<<"*", " ", " ", "2">>)>>,
      <<3, Str(<<" ", "H">>)>>, <<1, <<>>>>, <<2, Str(<<" ", " ">>)>>,
      <<1, Str(<<"\t">>)>>, <<2, Str(<<"-", "1", "\r">>)>> }

\* k numeric lines, ev after every period-th one (no event line: period 0)
SampleBody(k, period, ev) ==
    Join([i \in 1..k |->
             IF period > 0 /\ i % period = 0 THEN NumLine(i) \o NL \o ev ELSE NumLine(i)],
         NL)

SampleLogs ==
    {SampleBody(k, 0, <<>>) : k \in 0..MaxNumericLines}
    \cup {SampleBody(k, pat[1], pat[2]) \o NL :
             k \in 0..MaxNumericLines, pat \in EventPatterns}

\* one long line around the budget, after a few characters of 1 to 4 bytes
Heads ==
    { <<>>, Str(<<"a">>), Str(<<"U+3042">>), Str(<<"U+00E9">>), Str(<<"U+1F600">>),
      Str(<<"U+3042", "U+00E9">>), Str(<<"7", "\n", "U+3042">>) }

LongLogs ==
    {h \o <<Run("b", k)>> :
        h \in Heads, k \in (MaxOutputChars - Slack)..(MaxOutputChars + Slack)}

\* a body followed by a JSON block: a document, or text that does not parse
Fragments ==
    {Serialize(val) : val \in ParseUniverse}
    \cup {Str(<<"{", "x">>), Str(<<"[", "1", ",">>), <<>>}

JsonLogs ==
    {body \o JSON_START \o frag \o JSON_END \o Str(<<"t">>) :
        body \in {Str(<<"1", "\n", "H">>), <<Run("b", MaxOutputChars)>>},
        frag \in Fragments}
    \cup {Str(<<"1">>) \o JSON_START \o Str(<<"[", "1", "]">>),
          Str(<<"k">>) \o JSON_END \o Str(<<"1">>)}

LogInputs == SampleLogs \cup LongLogs \cup JsonLogs

(***************************************************************************)
(* Specification: compress_log_for_ai and build_prompt_string on one log   *)
(***************************************************************************)
JsonIdle ==
    /\ v = JNull
    /\ pruned = JNull
    /\ jpc = "idle"

InitText ==
    /\ log \in LogInputs
    /\ focus_point = <<>>
    /\ system_instruction = <<>>
    /\ compressed = <<>>
    /\ built = [panicked |-> FALSE, final_log |-> <<>>, prompt |-> <<>>]
    /\ tpc = "start"
    /\ JsonIdle
    /\ RunIdle

CallCompress ==
    /\ tpc = "start"
    /\ compressed' = compress_log_for_ai(log)
    /\ tpc' = "compressed"
    /\ UNCHANGED <<log, focus_point, system_instruction, built, jsonVars, runVars>>

CallBuildPrompt ==
    /\ tpc = "compressed"
    /\ \E focus \in {<<>>, Str(<<" ">>), Str(<<"f">>)}, instruction \in {<<>>, Str(<<"s">>)} :
           /\ focus_point' = focus
           /\ system_instruction' = instruction
           /\ built' = build_prompt_string(log, focus, instruction)
    /\ tpc' = "built"
    /\ UNCHANGED <<log, compressed, jsonVars, runVars>>

NextText == CallCompress \/ CallBuildPrompt

(***************************************************************************)
(* Specification: one call of prune_json_recursively                       *)
(***************************************************************************)
TextIdle ==
    /\ log = <<>>
    /\ focus_point = <<>>
    /\ system_instruction = <<>>
    /\ compressed = <<>>
    /\ built = <<>>
    /\ tpc = "idle"

InitJson ==
    /\ v \in JsonVals(JsonDepth)
    /\ pruned = JNull
    /\ jpc = "start"
    /\ TextIdle
    /\ RunIdle

CallPrune ==
    /\ jpc = "start"
    /\ pruned' = prune_json_recursively(v)
    /\ jpc' = "done"
    /\ UNCHANGED <<v, textVars, runVars>>

NextJson == CallPrune


SpecJson == InitJson /\ [][NextJson]_vars

SpecText == InitText /\ [][NextText]_vars

(***************************************************************************)
(* clean_gurobi_log                                                        *)
(***************************************************************************)
Banners ==
    { Str(<<"S", "e", "t", " ", "p", "a", "r", "a", "m", "e", "t", "e", "r">>),
      Str(<<"A", "c", "a", "d", "e", "m", "i", "c", " ", "l", "i", "c", "e", "n", "s", "e">>),
      Str(<<"G", "u", "r", "o", "b", "i", " ", "O", "p", "t", "i", "m", "i", "z", "e", "r",
            " ", "v", "e", "r", "s", "i", "o", "n">>),
      Str(<<"C", "P", "U", " ", "m", "o", "d", "e", "l">>),
      Str(<<"T", "h", "r", "e", "a", "d", " ", "c", "o", "u", "n", "t">>),
      Str(<<"M", "o", "d", "e", "l", " ", "f", "i", "n", "g", "e", "r", "p", "r", "i", "n", "t">>) }

clean_gurobi_log(raw_log) ==
    Join(SelectSeq(Lines(raw_log), LAMBDA line : \A b \in Banners : ~Contains(line, b)), NL)

(***************************************************************************)
(* run_optimization: the command                                           *)
(***************************************************************************)
\* str::split_whitespace: the non-empty pieces between whitespace
split_whitespace(s) ==
    LET spaced == [i \in 1..Len(s) |-> IF is_whitespace(s[i].c) THEN Ch(" ") ELSE s[i]]
    IN SelectSeq(SplitChar(spaced, Ch(" ")), LAMBDA piece : piece # <<>>)

\* program and cmd_args: the prefix's first word; its other words, the
\* script path, the words of args_str
BuildCommand(prefix, path, args) ==
    LET parts == split_whitespace(prefix)
    IN [program |-> parts[1],
        cmd_args |-> Tail(parts) \o <<path>> \o split_whitespace(args)]

Ok(val) == [kind |-> "Ok", val |-> val]
Err(val) == [kind |-> "Err", val |-> val]

EMPTY_PREFIX ==
    Str(<<"C", "o", "m", "m", "a", "n", "d", " ", "p", "r", "e", "f", "i", "x", " ",
          "i", "s", " ", "e", "m", "p", "t", "y">>)

\* format!("コマンド起動エラー: {}\n(設定のCommand Prefixを確認してください)", e):
\* the two literals and the OS error, each one token
SpawnError ==
    <<Ch("<spawn error, head>"), Ch("<os error>"), Ch("<spawn error, hint>")>>

(***************************************************************************)
(* run_optimization: the exit status and the result                        *)
(***************************************************************************)
\* ExitStatus::code() is Some(code) for a process that exited
Exited(code) == [some |-> TRUE, code |-> code]

\* taskkill /F ends the process with exit code 1
KilledStatus == Exited(1)

\* ExitStatus::success
successAny(st) == st.some

success(st) == st.some /\ st.code = 0

\* {:?} of an Option<i32>
DebugOption(st) ==
    IF st.some
    THEN Str(<<"S", "o", "m", "e", "(">>) \o FmtInt(st.code) \o <<Ch(")")>>
    ELSE Str(<<"N", "o", "n", "e">>)

EXIT_CODE == Str(<<"E", "x", "i", "t", " ", "C", "o", "d", "e", ":", " ">>)

\* format!("Exit Code: {:?}\n{}", status.code(), full_stderr)
FailureMessage(st, err) == EXIT_CODE \o DebugOption(st) \o NL \o err

Outcome(st, out, err) ==
    IF success(st) THEN Ok(clean_gurobi_log(out)) ELSE Err(FailureMessage(st, err))

(***************************************************************************)
(* The child process: it writes the lines of its script, blocking while    *)
(* the pipe it writes to is full, then exits; the pipes' write ends close  *)
(* when it exits or is terminated.                                         *)
(***************************************************************************)
\* what a write puts in the pipe: a line of text (every second line a banner
\* line when it goes to stdout), or bytes that are not UTF-8
TextOf(kind, stream, i) ==
    IF stream = "stdout" /\ i % 2 = 0
    THEN Str(<<"C", "P", "U", " ", "m", "o", "d", "e", "l">>) \o FmtNat(i)
    ELSE <<Ch(IF stream = "stdout" THEN "o" ELSE "e")>> \o FmtNat(i)

WriteKinds == {<<"stdout", "line">>, <<"stdout", "bad">>,
               <<"stderr", "line">>, <<"stderr", "bad">>}

ScriptOf(ws) ==
    [i \in 1..Len(ws) |->
        [stream |-> ws[i][1], ok |-> ws[i][2] # "bad", text |-> TextOf(ws[i][2], ws[i][1], i)]]

Scripts == UNION {{ScriptOf(ws) : ws \in [1..k -> WriteKinds]} : k \in 0..MaxWrites}

ChildWrite ==
    /\ cstate = "running"
    /\ script # <<>>
    /\ Len(pipe[script[1].stream]) < PipeCap
    /\ pipe' = [pipe EXCEPT ![script[1].stream] =
                   Append(@, [ok |-> script[1].ok, text |-> script[1].text])]
    /\ script' = Tail(script)
    /\ UNCHANGED <<jsonVars, textVars, command_prefix, script_path, args_str, mpc, cmd, cstate, cpid, exit_code,
                   status, rpc, cur, acc, full_stdout, full_stderr, sink, result, kill_ret, killed, errAt>>

ChildExit ==
    /\ cstate = "running"
    /\ script = <<>>
    /\ cstate' = "exited"
    /\ status' = Exited(exit_code)
    /\ UNCHANGED <<jsonVars, textVars, command_prefix, script_path, args_str, mpc, cmd, cpid, script, exit_code,
                   pipe, rpc, cur, acc, full_stdout, full_stderr, sink, result, kill_ret, killed, errAt>>

(***************************************************************************)
(* The reader threads (one per stream): for line in reader.lines()         *)
(***************************************************************************)
LogEvent(stream, l) == [name |-> "log-output", text |-> l, pid |-> 0, src |-> stream]
PidEvent(p) == [name |-> "process-pid", text |-> <<>>, pid |-> p, src |-> "main"]

\* full_log.push_str(&l); full_log.push('\n')
AccPushFront(full, l) == l \o NL \o full

AccPush(full, l) == full \o l \o NL

\* the reader thread reads on whenever it is at reader.lines().next()
CanReadInTurn(s) == rpc[s] = "read" /\ (s = "stderr" => rpc["stdout"] = "done")

CanRead(s) == rpc[s] = "read"

\* lines().next() returns Some(Ok(l)): the loop body starts
ReaderLine(s) ==
    /\ CanRead(s)
    /\ pipe[s] # <<>>
    /\ pipe[s][1].ok
    /\ cur' = [cur EXCEPT ![s] = pipe[s][1].text]
    /\ pipe' = [pipe EXCEPT ![s] = Tail(@)]
    /\ rpc' = [rpc EXCEPT ![s] = "emit"]
    /\ UNCHANGED <<jsonVars, textVars, command_prefix, script_path, args_str, mpc, cmd, cstate, cpid, script,
                   exit_code, status, acc, full_stdout, full_stderr, sink, result, kill_ret, killed, errAt>>

\* the line forwarded so far by the reader of s
Forwarded(s) ==
    LET evs == SelectSeq(sink, LAMBDA e : e.name = "log-output" /\ e.src = s)
    IN [i \in 1..Len(evs) |-> evs[i].text]

\* lines().next() returns Some(Err(_)) (a line that is not UTF-8; its bytes
\* are consumed): `if let Ok(l) = line` does not match, the loop goes on
ReaderError(s) ==
    /\ CanRead(s)
    /\ pipe[s] # <<>>
    /\ ~pipe[s][1].ok
    /\ pipe' = [pipe EXCEPT ![s] = Tail(@)]
    /\ errAt' = [errAt EXCEPT ![s] =
                    IF @ = <<>> THEN <<[fwd |-> Forwarded(s), acc |-> acc[s]]>> ELSE @]
    /\ UNCHANGED <<jsonVars, textVars, command_prefix, script_path, args_str, mpc, cmd, cstate, cpid, script,
                   exit_code, status, rpc, cur, acc, full_stdout, full_stderr, sink, result,
                   kill_ret, killed>>

\* lines().next() returns None: the pipe is empty and its write end closed
ReaderEof(s) ==
    /\ CanRead(s)
    /\ pipe[s] = <<>>
    /\ cstate = "exited"
    /\ rpc' = [rpc EXCEPT ![s] = "done"]
    /\ UNCHANGED <<jsonVars, textVars, command_prefix, script_path, args_str, mpc, cmd, cstate, cpid, script,
                   exit_code, status, pipe, cur, acc, full_stdout, full_stderr, sink, result,
                   kill_ret, killed, errAt>>

\* let _ = window_clone.emit("log-output", &l)
ReaderEmit(s) ==
    /\ rpc[s] = "emit"
    /\ sink' = Append(sink, LogEvent(s, cur[s]))
    /\ rpc' = [rpc EXCEPT ![s] = "push"]
    /\ UNCHANGED <<jsonVars, textVars, command_prefix, script_path, args_str, mpc, cmd, cstate, cpid, script,
                   exit_code, status, pipe, cur, acc, full_stdout, full_stderr, result, kill_ret, killed, errAt>>

ReaderPush(s) ==
    /\ rpc[s] = "push"
    /\ acc' = [acc EXCEPT ![s] = AccPush(@, cur[s])]
    /\ rpc' = [rpc EXCEPT ![s] = "read"]
    /\ UNCHANGED <<jsonVars, textVars, command_prefix, script_path, args_str, mpc, cmd, cstate, cpid, script,
                   exit_code, status, pipe, cur, full_stdout, full_stderr, sink, result, kill_ret, killed, errAt>>

Reader(s) ==
    ReaderLine(s) \/ ReaderError(s) \/ ReaderEof(s) \/ ReaderEmit(s) \/ ReaderPush(s)

(***************************************************************************)
(* run_optimization                                                        *)
(***************************************************************************)
\* the identifier the OS gives the child, and the identifiers a caller may
\* hand to kill_process
ChildPid == 41

Pids == {ChildPid, ChildPid + 1}

\* command_prefix.split_whitespace().next().ok_or("Command prefix is empty")?
\* and the arguments collected
BuildOrFail ==
    /\ mpc = "start"
    /\ IF split_whitespace(command_prefix) = <<>>
       THEN /\ result' = Err(EMPTY_PREFIX)
            /\ mpc' = "returned"
            /\ cmd' = cmd
       ELSE /\ cmd' = BuildCommand(command_prefix, script_path, args_str)
            /\ mpc' = "spawn"
            /\ result' = result
    /\ UNCHANGED <<jsonVars, textVars, command_prefix, script_path, args_str, cstate, cpid, script, exit_code,
                   status, pipe, rpc, cur, acc, full_stdout, full_stderr, sink, kill_ret, killed, errAt>>

\* Command::new(program)...spawn() succeeds: the child runs, with a process
\* identifier of its own; its stdout and stderr are taken (both are piped,
\* so neither take() is None)
SpawnOk ==
    /\ mpc = "spawn"
    /\ cpid' = ChildPid
    /\ cstate' = "running"
    /\ mpc' = "spawn_stdout_reader"
    /\ UNCHANGED <<jsonVars, textVars, command_prefix, script_path, args_str, cmd, script, exit_code, status,
                   pipe, rpc, cur, acc, full_stdout, full_stderr, sink, result, kill_ret, killed, errAt>>

\* spawn() fails: map_err(..)? returns the error
SpawnFails ==
    /\ mpc = "spawn"
    /\ result' = Err(SpawnError)
    /\ mpc' = "returned"
    /\ UNCHANGED <<jsonVars, textVars, command_prefix, script_path, args_str, cmd, cstate, cpid, script,
                   exit_code, status, pipe, rpc, cur, acc, full_stdout, full_stderr, sink,
                   kill_ret, killed, errAt>>

StartReader(s, next) ==
    /\ rpc' = [rpc EXCEPT ![s] = "read"]
    /\ mpc' = next
    /\ UNCHANGED <<jsonVars, textVars, command_prefix, script_path, args_str, cmd, cstate, cpid, script,
                   exit_code, status, pipe, cur, acc, full_stdout, full_stderr, sink, result,
                   kill_ret, killed, errAt>>

\* let stdout_handle = thread::spawn(..)
SpawnStdoutReader == mpc = "spawn_stdout_reader" /\ StartReader("stdout", "spawn_stderr_reader")

\* let stderr_handle = thread::spawn(..)
SpawnStderrReader == mpc = "spawn_stderr_reader" /\ StartReader("stderr", "emit_pid")

\* let pid = child.id()
PublishedPidStale == cpid + 1

PublishedPid == cpid

\* window.emit("process-pid", pid)
EmitPid ==
    /\ mpc = "emit_pid"
    /\ sink' = Append(sink, PidEvent(PublishedPid))
    /\ mpc' = "wait"
    /\ UNCHANGED <<jsonVars, textVars, command_prefix, script_path, args_str, cmd, cstate, cpid, script,
                   exit_code, status, pipe, rpc, cur, acc, full_stdout, full_stderr, result,
                   kill_ret, killed, errAt>>

\* child.wait() returns once the child has exited
Wait ==
    /\ mpc = "wait"
    /\ cstate = "exited"
    /\ mpc' = "join_stdout"
    /\ UNCHANGED <<jsonVars, textVars, command_prefix, script_path, args_str, cmd, cstate, cpid, script,
                   exit_code, status, pipe, rpc, cur, acc, full_stdout, full_stderr, sink,
                   result, kill_ret, killed, errAt>>

\* stdout_handle.join(): the reader thread has returned its accumulator
JoinStdout ==
    /\ mpc = "join_stdout"
    /\ rpc["stdout"] = "done"
    /\ full_stdout' = acc["stdout"]
    /\ mpc' = "join_stderr"
    /\ UNCHANGED <<jsonVars, textVars, command_prefix, script_path, args_str, cmd, cstate, cpid, script,
                   exit_code, status, pipe, rpc, cur, acc, full_stderr, sink, result, kill_ret, killed, errAt>>

\* stderr_handle.join(), then the result by status.success()
JoinStderrAndReturn ==
    /\ mpc = "join_stderr"
    /\ rpc["stderr"] = "done"
    /\ full_stderr' = acc["stderr"]
    /\ result' = Outcome(status, full_stdout, acc["stderr"])
    /\ mpc' = "returned"
    /\ UNCHANGED <<jsonVars, textVars, command_prefix, script_path, args_str, cmd, cstate, cpid, script,
                   exit_code, status, pipe, rpc, cur, acc, full_stdout, sink, kill_ret, killed, errAt>>

Main ==
    \/ BuildOrFail
    \/ SpawnOk
    \/ SpawnFails
    \/ SpawnStdoutReader
    \/ SpawnStderrReader
    \/ EmitPid
    \/ Wait
    \/ JoinStdout
    \/ JoinStderrAndReturn

(***************************************************************************)
(* kill_process                                                            *)
(***************************************************************************)
\* Command::new("taskkill") cannot be started: map_err(..)? returns the error
KillNotStarted ==
    /\ kill_ret' = "Err"
    /\ UNCHANGED <<jsonVars, textVars, command_prefix, script_path, args_str, mpc, cmd, cstate, cpid, script,
                   exit_code, status, pipe, rpc, cur, acc, full_stdout, full_stderr, sink,
                   result, killed, errAt>>

\* taskkill ran and the process pid is running: the OS terminates it
KillTerminates(pid) ==
    /\ cstate = "running"
    /\ pid = cpid
    /\ kill_ret' = "Ok"
    /\ cstate' = "exited"
    /\ status' = KilledStatus
    /\ killed' = <<[waiting |-> mpc = "wait"]>>
    /\ UNCHANGED <<jsonVars, textVars, command_prefix, script_path, args_str, mpc, cmd, cpid, script, exit_code,
                   pipe, rpc, cur, acc, full_stdout, full_stderr, sink, result, errAt>>

\* taskkill ran to no effect (no such process, or it could not be ended);
\* its output is dropped and kill_process returns Ok(())
KillNoEffect(pid) ==
    /\ kill_ret' = "Ok"
    /\ UNCHANGED <<jsonVars, textVars, command_prefix, script_path, args_str, mpc, cmd, cstate, cpid, script,
                   exit_code, status, pipe, rpc, cur, acc, full_stdout, full_stderr, sink,
                   result, killed, errAt>>

kill_process(pid) == KillTerminates(pid) \/ KillNoEffect(pid)

(***************************************************************************)
(* Specification: one run of run_optimization, with kill_process           *)
(***************************************************************************)
Prefixes == {<<>>, Str(<<" ">>), Str(<<"u", "v", " ", " ", "r", "u", "n">>)}

InitRun ==
    /\ command_prefix \in Prefixes
    /\ script_path = Str(<<"m">>)
    /\ args_str = Str(<<"-", "t", " ", "1">>)
    /\ mpc = "start"
    /\ cmd = <<>>
    /\ cstate = "none"
    /\ cpid = 0
    /\ script \in Scripts
    /\ exit_code \in {0, 2}
    /\ status = <<>>
    /\ pipe = [s \in Streams |-> <<>>]
    /\ rpc = [s \in Streams |-> "unstarted"]
    /\ cur = [s \in Streams |-> <<>>]
    /\ acc = [s \in Streams |-> <<>>]
    /\ full_stdout = <<>>
    /\ full_stderr = <<>>
    /\ sink = <<>>
    /\ result = <<>>
    /\ kill_ret = "none"
    /\ killed = <<>>
    /\ errAt = [s \in Streams |-> <<>>]
    /\ JsonIdle
    /\ TextIdle

Child == ChildWrite \/ ChildExit

NextRun ==
    \/ BuildOrFail
    \/ SpawnOk
    \/ SpawnFails
    \/ SpawnStdoutReader
    \/ SpawnStderrReader
    \/ EmitPid
    \/ Wait
    \/ JoinStdout
    \/ JoinStderrAndReturn
    \/ ChildWrite
    \/ ChildExit
    \/ \E s \in Streams : ReaderLine(s)
    \/ \E s \in Streams : ReaderError(s)
    \/ \E s \in Streams : ReaderEof(s)
    \/ \E s \in Streams : ReaderEmit(s)
    \/ \E s \in Streams : ReaderPush(s)
    \/ KillNotStarted
    \/ \E pid \in Pids : KillTerminates(pid)
    \/ \E pid \in Pids : KillNoEffect(pid)

SpecRun == InitRun /\ [][NextRun]_vars

\* the OS schedules the child, the two reader threads and the thread that
\* runs run_optimization; nothing obliges anyone to call kill_process
FairSpecRun ==
    /\ SpecRun
    /\ WF_vars(Main)
    /\ WF_vars(Child)
    /\ \A s \in Streams : WF_vars(Reader(s))

(***************************************************************************)
(* Vocabulary of the properties                                            *)
(***************************************************************************)
\* the array at path p of the document, after the call
ArrayRule(p) ==
    LET o == At(v, p)
        r == At(pruned, p)
        k == Len(o.items)
    IN /\ r.t = "arr"
       /\ IF k > MAX_ITEMS
          THEN /\ Len(r.items) = MAX_ITEMS + 1
               /\ r.items[MAX_ITEMS + 1] = JStr(TruncationMarker(k - MAX_ITEMS))
               /\ \A i \in 1..MAX_ITEMS : r.items[i] = prune_json_recursively(o.items[i])
          ELSE Len(r.items) = k

\* the object at path p of the document, after the call
ObjectRule(p) ==
    LET o == At(v, p)
        r == At(pruned, p)
    IN r.t = "obj" /\ DOMAIN r.map = DOMAIN o.map

\* the lines of the log body, as the sampling sees them
BodyLines == Lines(LogPart(log))

IsBlank(l) == Trim(l) = <<>>

IsNumeric(l) == ~IsBlank(l) /\ is_ascii_digit(Trim(l)[1].c)

\* the running count of numeric lines at line i of ls
Rank(ls, i) == Cardinality({j \in 1..i : IsNumeric(ls[j])})

ShouldKeep(ls, i) ==
    /\ ~IsBlank(ls[i])
    /\ IsNumeric(ls[i]) =>
           (Rank(ls, i) < SampleWindow \/ Rank(ls, i) % SampleStride = 0)

\* the lines of the digest's log part
DigestLines ==
    LET tail == IF JsonPart(log) = <<>> THEN <<>> ELSE JSON_TAG \o JsonPart(log)
        body == SubSeq(compressed, 1, Len(compressed) - Len(tail))
    IN IF body = <<>> THEN <<>> ELSE SplitChar(body, Ch("\n"))

\* 50 numeric lines: alone, an H line after each, a * line after every other
SolverEvents ==
    {<<0, <<>>>>, <<1, Str(<<"H", " ", "1">>)>>, <<2, Str(<<"*", " ", " ", "2">>)>>}

FiftyLines(period, ev) ==
    IF period = 0 THEN SampleBody(50, 0, <<>>) ELSE SampleBody(50, period, ev) \o NL

\* the complete lines of a reader's accumulator
AccLines(s) == Lines(acc[s])

PidEvents == SelectSeq(sink, LAMBDA e : e.name = "process-pid")

BeforeEmit ==
    mpc \in {"start", "spawn", "spawn_stdout_reader", "spawn_stderr_reader", "emit_pid"}

\* kill_process(pid) with the published pid made the OS terminate the child
\* while run_optimization was in child.wait()
KilledWhileWaiting ==
    /\ killed # <<>>
    /\ killed[1].waiting
    /\ PidEvents # <<>>
    /\ PidEvents[1].pid = cpid

\* the wait returned a failure status, both readers ended and were joined,
\* run_optimization returned an error
ReturnedAfterKill ==
    /\ mpc = "returned"
    /\ cstate = "exited"
    /\ ~(status.some /\ status.code = 0)
    /\ \A s \in Streams : rpc[s] = "done"
    /\ full_stdout = acc["stdout"]
    /\ full_stderr = acc["stderr"]
    /\ result.kind = "Err"

AllTerminated ==
    /\ mpc = "returned"
    /\ cstate # "none" => (cstate = "exited" /\ \A s \in Streams : rpc[s] = "done")

(***************************************************************************)
(* C1: the digest handed on for submission (final_log of                   *)
(* build_prompt_string, the elision marker counted) is at most             *)
(* MaxOutputChars long.                                                    *)
(***************************************************************************)
C1_DigestWithinBudget ==
    (tpc = "built" /\ ~built.panicked) => ByteLen(built.final_log) <= MaxOutputChars

(***************************************************************************)
(* C2: run_optimization returns Ok exactly when the child's exit status is *)
(* success; the Ok value is the sanitized accumulated stdout; for a child  *)
(* that exits with code c the error contains "Exit Code: c" and the        *)
(* standard-error text.  (Stated for the runs without kill_process.)       *)
(***************************************************************************)
C2_ResultMatchesExit ==
    (mpc = "returned" /\ cstate = "exited" /\ kill_ret = "none") =>
        /\ result.kind = "Ok" <=> (status.some /\ status.code = 0)
        /\ result.kind = "Ok" => result.val = clean_gurobi_log(acc["stdout"])
        /\ result.kind = "Err" =>
               /\ Contains(result.val, EXIT_CODE \o FmtInt(status.code))
               /\ Contains(result.val, acc["stderr"])

(***************************************************************************)
(* C3: line sampling keeps, in order, exactly the non-blank lines of the   *)
(* log body that do not start with a digit, and the numeric lines whose    *)
(* running count among the numeric lines is below SampleWindow or a        *)
(* multiple of SampleStride; blank lines are dropped.  With 50 numeric     *)
(* lines the kept numeric lines are 1..14, 15, 30 and 45, also with H or * *)
(* lines interleaved, all of which are kept.                               *)
(***************************************************************************)
C3_SamplingKeepsExactly ==
    tpc = "compressed" =>
        LET ls == BodyLines
            idx == {i \in 1..Len(ls) : ShouldKeep(ls, i)}
            d == DigestLines
        IN /\ Len(d) = Cardinality(idx)
           /\ \A i \in idx : d[Cardinality({j \in idx : j <= i})] = ls[i]
           /\ \A pat \in SolverEvents :
                  log = FiftyLines(pat[1], pat[2]) =>
                      /\ {i \in 1..50 : \E k \in 1..Len(d) : d[k] = CollapseSpaces(NumLine(i))}
                             = (1..14) \cup {15, 30, 45}
                      /\ pat[1] > 0 =>
                             Cardinality({k \in 1..Len(d) : d[k] = CollapseSpaces(pat[2])})
                                 = 50 \div pat[1]

\* C3: 50 numeric lines, each followed by an H line: 17 numeric lines and
\* the 50 H lines are kept
C3_Witness ==
    /\ tpc = "compressed"
    /\ log = FiftyLines(1, Str(<<"H", " ", "1">>))
    /\ Len(DigestLines) = 67

(***************************************************************************)
(* C4 (as stated): every array of the document that had k > MAX_ITEMS      *)
(* elements has MAX_ITEMS + 1 elements afterwards, the first MAX_ITEMS     *)
(* original ones (pruned) and the marker encoding k - MAX_ITEMS; shorter   *)
(* arrays keep their length; no object loses a key.                        *)
(***************************************************************************)
C4_EveryArrayAndKey ==
    jpc = "done" =>
        \A p \in Paths(v) :
            /\ At(v, p).t = "arr" => (p \in Paths(pruned) /\ ArrayRule(p))
            /\ At(v, p).t = "obj" => (p \in Paths(pruned) /\ ObjectRule(p))

(***************************************************************************)
(* C4 (amended): the same, for every array and every object that is not    *)
(* inside an element removed by the truncation of an enclosing array;      *)
(* scalars that remain are unchanged.                                      *)
(***************************************************************************)
C4_SurvivingArraysAndKeys ==
    jpc = "done" =>
        \A p \in Paths(v) :
            Survives(v, p) =>
                /\ p \in Paths(pruned)
                /\ At(v, p).t = "arr" => ArrayRule(p)
                /\ At(v, p).t = "obj" => ObjectRule(p)
                /\ At(v, p).t \notin {"arr", "obj"} => At(pruned, p) = At(v, p)

\* C4: a long array nested among the kept elements of a long array, both cut
C4_Witness ==
    /\ jpc = "done"
    /\ v.t = "arr"
    /\ Len(v.items) > MAX_ITEMS
    /\ \E i \in 1..MAX_ITEMS :
           /\ v.items[i].t = "arr"
           /\ Len(v.items[i].items) > MAX_ITEMS
           /\ Len(pruned.items[i].items) = MAX_ITEMS + 1
    /\ Len(pruned.items) = MAX_ITEMS + 1

(***************************************************************************)
(* C5: per stream and at every point of a run, the lines forwarded to the  *)
(* sink are the lines of the accumulator, in order, plus at most one line  *)
(* not yet appended; once the reader has finished, the two are equal.      *)
(***************************************************************************)
C5_ForwardedMatchesAccumulated ==
    \A s \in Streams :
        LET f == Forwarded(s)
            a == AccLines(s)
        IN /\ Len(a) <= Len(f)
           /\ Len(f) <= Len(a) + 1
           /\ SubSeq(f, 1, Len(a)) = a
           /\ rpc[s] = "done" => f = a

\* C5: both readers have finished, one of them after two different lines
C5_Witness ==
    /\ \A s \in Streams : rpc[s] = "done"
    /\ \E s \in Streams :
           /\ Len(AccLines(s)) >= 2
           /\ AccLines(s)[1] # AccLines(s)[2]
           /\ Forwarded(s) = AccLines(s)

(***************************************************************************)
(* C6: the process-identifier event is emitted at most once, after the     *)
(* spawn succeeded and before the wait begins, with the identifier of the  *)
(* process this run spawned; with an empty prefix or a failed spawn it is  *)
(* never emitted.                                                          *)
(***************************************************************************)
C6_PidPublishedOnce ==
    /\ Len(PidEvents) <= 1
    /\ \A i \in 1..Len(PidEvents) : cstate # "none" /\ PidEvents[i].pid = cpid
    /\ BeforeEmit => PidEvents = <<>>
    /\ mpc \in {"wait", "join_stdout", "join_stderr"} => Len(PidEvents) = 1
    /\ (mpc = "returned" /\ cstate = "none") => PidEvents = <<>>
    /\ (mpc = "returned" /\ cstate # "none") => Len(PidEvents) = 1

\* C6: the identifier is published, the child runs, the wait has begun
C6_Witness ==
    /\ mpc = "wait"
    /\ cstate = "running"
    /\ Len(PidEvents) = 1
    /\ PidEvents[1].pid = cpid

(***************************************************************************)
(* C7: when kill_process, called with the published identifier while       *)
(* run_optimization waits, makes the OS terminate the process, the wait    *)
(* returns a failure status, both readers reach end-of-stream and are      *)
(* joined, and run_optimization returns an error.                          *)
(***************************************************************************)
C7_KillEndsRunWithError == KilledWhileWaiting ~> ReturnedAfterKill

\* C7: a run killed while waiting has returned its error, after output
C7_Witness == KilledWhileWaiting /\ ReturnedAfterKill /\ full_stdout # <<>>

(***************************************************************************)
(* C8: once a read on a stream has returned an error, the reader of that   *)
(* stream forwards and accumulates nothing more.                           *)
(***************************************************************************)
C8_NothingAfterReadError ==
    \A s \in Streams :
        errAt[s] # <<>> => (Forwarded(s) = errAt[s][1].fwd /\ acc[s] = errAt[s][1].acc)

(***************************************************************************)
(* C9: with bounded pipes, whatever the child writes and in whatever       *)
(* order, the child, both readers and run_optimization all terminate.      *)
(***************************************************************************)
C9_NoDeadlock == <>AllTerminated

\* C9: the child is blocked on a full pipe while run_optimization waits and
\* the other pipe is empty
C9_Witness ==
    /\ mpc = "wait"
    /\ cstate = "running"
    /\ script # <<>>
    /\ Len(pipe[script[1].stream]) = PipeCap
    /\ \E s \in Streams : script[1].stream # s /\ rpc[s] = "read" /\ pipe[s] = <<>>

(***************************************************************************)
(* C10: build_prompt_string returns a prompt for every log: the tail       *)
(* truncation never aborts.                                                *)
(***************************************************************************)
C10_NeverAborts == tpc = "built" => ~built.panicked

====
